---- MODULE Spec2Model ----
(***************************************************************************)
(* State-machine model of the batch conversion pipeline of files2knowledge *)
(* (src/src/files2knowledge.py): process_input_path, process_pdf,          *)
(* process_image, OllamaClient.generate and the summary printed by main.   *)
(*                                                                         *)
(* Strings and paths are sequences of chunks (short strings); a path is    *)
(* the chunks of its components separated by the chunk "/".  The chunks    *)
(* are cut so that the two substring tests of main, "_description_" and    *)
(* "_all_descriptions.json", can only match on chunk boundaries: the first *)
(* is the chunk "_description" followed by the chunk "_", the second the   *)
(* chunk "_all_descriptions" followed by the chunk ".json".                *)
(***************************************************************************)
EXTENDS Integers, Sequences, FiniteSets, TLC

\* ------------------------------------------------------------- bounds
MaxFiles == 2     \* files in the input tree at the start
MaxPages == 2     \* pages of one PDF
MaxClock == 1     \* seconds the wall clock may advance over all invocations
MaxRuns  == 2     \* invocations of main

\* ------------------------------------------------------------ strings
Last(s) == s[Len(s)]

Front(s) == SubSeq(s, 1, Len(s) - 1)

\* str.lower() on the suffix chunks the model uses
Lower(c) ==
  CASE c = ".JPG" -> ".jpg"
    [] c = ".PDF" -> ".pdf"
    [] OTHER      -> c

\* `needle in hay` on strings
Contains(hay, needle) ==
  \E i \in 1..(Len(hay) - Len(needle) + 1) :
     SubSeq(hay, i, i + Len(needle) - 1) = needle

\* str(page_num)
StrOfInt(n) ==
  CASE n = 0 -> "0" [] n = 1 -> "1" [] n = 2 -> "2" [] n = 3 -> "3"
    [] n = 4 -> "4" [] OTHER -> "9"

\* datetime.now().strftime("%Y%m%d_%H%M%S") at clock second t
Strftime(t) ==
  << "20240615", "_",
     CASE t = 0 -> "120000" [] t = 1 -> "120001" [] t = 2 -> "120002"
       [] t = 3 -> "120003" [] OTHER -> "120009" >>

\* -------------------------------------------------------------- paths
SuffixChunks ==
  {".jpg", ".jpeg", ".png", ".bmp", ".gif", ".pdf", ".txt", ".JPG", ".PDF", ".json"}

RECURSIVE LastSlash(_, _)
LastSlash(p, i) ==
  IF i = 0 THEN 0 ELSE IF p[i] = "/" THEN i ELSE LastSlash(p, i - 1)

\* Path.name
Name(p) == SubSeq(p, LastSlash(p, Len(p)) + 1, Len(p))

\* Path.suffix
Suffix(p) ==
  LET n == Name(p) IN
  IF Len(n) > 1 /\ Last(n) \in SuffixChunks THEN Last(n) ELSE ""

\* Path.stem
Stem(p) ==
  LET n == Name(p) IN IF Suffix(p) = "" THEN n ELSE Front(n)

\* dir / name
Join(d, n) == d \o <<"/">> \o n

\* p lies below directory d, at any depth
Under(d, p) == Len(p) > Len(d) + 1 /\ SubSeq(p, 1, Len(d) + 1) = d \o <<"/">>

ImageExts == <<".jpg", ".jpeg", ".png", ".bmp", ".gif">>

PdfExts == <<".pdf">>

InSeq(x, s) == \E i \in 1..Len(s) : s[i] = x

\* ------------------------------------------------------- the file tree
InRoot == <<"in">>

InSub == <<"in", "/", "sub">>

OutDir == <<"out">>

TempDir == <<"tmp">>

Missing == <<"nowhere">>

\* rasterization of this file raises (corrupt document)
Corrupt == 0 - 1

\* the files an input tree is drawn from
Candidates ==
  { Join(InRoot, <<"a", ".jpg">>),
    Join(InSub,  <<"a", ".png">>),
    Join(InRoot, <<"doc", ".pdf">>),
    Join(InSub,  <<"doc", ".pdf">>),
    Join(InRoot, <<"notes", ".txt">>),
    Join(InRoot, <<"B", ".JPG">>),
    Join(InRoot, <<"x", "_description", ".pdf">>) }

IsPdfFile(p) == Lower(Suffix(p)) = ".pdf"

\* the page counts a candidate may have: x_description.pdf is a one-page
\* document, any other PDF has up to MaxPages pages or cannot be rasterized
PageChoices(p) ==
  IF p = Join(InRoot, <<"x", "_description", ".pdf">>) THEN {1}
  ELSE IF IsPdfFile(p) THEN Corrupt..MaxPages
  ELSE {0}

InputTrees ==
  UNION { { f \in [S -> Corrupt..MaxPages] : \A p \in S : f[p] \in PageChoices(p) } :
          S \in { T \in SUBSET Candidates : Cardinality(T) <= MaxFiles } }

\* the pathlib flavours to tell apart: they differ only in how a glob pattern
\* matches the case of a name, so a tree of lower-case names needs only one
PlatformsFor(tree) ==
  IF \E p \in DOMAIN tree : Lower(Last(p)) # Last(p) THEN BOOLEAN ELSE {TRUE}

\* inference results: the "response" field, "" when it is absent
Descriptions == {"", "text"}

VARIABLES
  inFs,         \* input tree: file path -> page count (PDFs), 0 otherwise
  posix,        \* pathlib flavour: glob patterns match case-sensitively
  outFs,        \* files below the output directory: path -> JSON record
  outDirs,      \* directories that exist at or below the output directory
  temp,         \* files of the live TemporaryDirectory; tempLive says it exists
  tempLive,
  clock,        \* the latest reading of the wall clock, in seconds
  pc,           \* "idle" | "run" | "pages"
  run,          \* number of invocations of main started
  inputPath,    \* args.input_path of the current invocation
  pdf_files,    \* PDFs not yet processed (head: the one in process_pdf)
  image_files,  \* images not yet processed
  cur,          \* locals of the running process_pdf
  output_files, \* process_input_path's accumulated list
  status,       \* "none" | "running" | "ok" | "failed"
  error,        \* the exception that ended the invocation, "" if none
  exitCode,     \* process exit status of main
  report,       \* the counts main logs on success
  events        \* history: inference calls, writes, failures, in order

vars ==
  << inFs, posix, outFs, outDirs, temp, tempLive, clock, pc, run, inputPath,
     pdf_files, image_files, cur, output_files, status, error, exitCode,
     report, events >>

NoCur ==
  [ pdf_path |-> <<>>, timestamp |-> <<>>, pdf_output_dir |-> <<>>,
    images |-> 0, i |-> 0, descriptions |-> <<>>, output_files |-> <<>> ]

NoReport == [ images |-> 0, pdfs |-> 0 ]

Init ==
  /\ inFs \in InputTrees
  /\ posix \in PlatformsFor(inFs)
  /\ outFs = <<>>
  /\ outDirs = {}
  /\ temp = {}
  /\ tempLive = FALSE
  /\ clock = 0
  /\ pc = "idle"
  /\ run = 0
  /\ inputPath = <<>>
  /\ pdf_files = <<>>
  /\ image_files = <<>>
  /\ cur = NoCur
  /\ output_files = <<>>
  /\ status = "none"
  /\ error = ""
  /\ exitCode = 0
  /\ report = NoReport
  /\ events = <<>>

\* ------------------------------------------------- naming of the outputs
\* str(image_path) + "_resized.jpg"
ResizedPath(image_path) == image_path \o <<"_resized", ".jpg">>

\* temp_dir / f"page_{i+1}.png"
TempPage(page_num) == Join(TempDir, <<"page_", StrOfInt(page_num), ".png">>)

\* output_dir / f"{image_path.stem}_description_{timestamp}.json"
ImageOutputFile(image_path, timestamp) ==
  Join(OutDir, Stem(image_path) \o <<"_description", "_">> \o timestamp \o <<".json">>)

\* output_dir / f"{pdf_path.stem}_{timestamp}"
PdfOutputDir(pdf_path, timestamp) ==
  Join(OutDir, Stem(pdf_path) \o <<"_">> \o timestamp)

\* pdf_output_dir / f"page_{page_num}_description.json"
PageOutputFile(pdf_output_dir, page_num) ==
  Join(pdf_output_dir, <<"page_", StrOfInt(page_num), "_description", ".json">>)

\* pdf_output_dir / f"{pdf_path.stem}_all_descriptions.json"
CombinedOutputFile(pdf_output_dir, pdf_path) ==
  Join(pdf_output_dir, Stem(pdf_path) \o <<"_all_descriptions", ".json">>)

\* ------------------------------------------------------ the JSON records
ImageJson(image_path, timestamp, description) ==
  [ filename |-> Name(image_path), timestamp |-> timestamp,
    description |-> description ]

PageJson(page_num, pdf_path, timestamp, description) ==
  [ page |-> page_num, filename |-> Name(pdf_path), timestamp |-> timestamp,
    description |-> description ]

CombinedJson(pdf_path, timestamp, images, descriptions) ==
  [ filename |-> Name(pdf_path), timestamp |-> timestamp,
    total_pages |-> images, pages |-> descriptions ]

\* the key taken from the loop index instead of the page number
PutDescriptionByIndex(descriptions, page_num, description) ==
  (StrOfInt(page_num - 1) :> description) @@ descriptions

\* descriptions[str(page_num)] = description
PutDescription(descriptions, page_num, description) ==
  (StrOfInt(page_num) :> description) @@ descriptions

\* ------------------------------------------------- classification, glob
IsFile(p) == p \in DOMAIN inFs

\* `else:` in place of `elif input_path.is_dir():`
IsDirElse(p) == ~IsFile(p)

IsDir(p) == p = InRoot \/ (\E q \in DOMAIN inFs : Under(p, q))

\* the image branch taken without looking at the suffix
SingleDispatchNoSuffixTest(p) ==
  IF InSeq(Lower(Suffix(p)), PdfExts) THEN "pdf" ELSE "image"

\* the branch process_input_path takes for a single file
SingleDispatch(p) ==
  IF InSeq(Lower(Suffix(p)), PdfExts) THEN "pdf"
  ELSE IF InSeq(Lower(Suffix(p)), ImageExts) THEN "image"
  ELSE "unsupported"

\* input_path.glob(f"**/*{ext}"): pathlib matches the pattern case-sensitively
\* on the POSIX flavour and case-insensitively on the Windows flavour
Glob(root, ext) ==
  { p \in DOMAIN inFs :
      /\ Under(root, p)
      /\ IF posix THEN Last(p) = ext ELSE Lower(Last(p)) = ext }

\* the orders in which a directory listing may come back
Orders(S) ==
  { f \in [1..Cardinality(S) -> S] : \A x \in S : \E i \in DOMAIN f : f[i] = x }

\* image_files: one glob per extension, in the order of the extension list
RECURSIVE ImageOrders(_, _)
ImageOrders(root, k) ==
  IF k > Len(ImageExts) THEN { <<>> }
  ELSE { a \o b : a \in Orders(Glob(root, ImageExts[k])),
                  b \in ImageOrders(root, k + 1) }

\* what generate can do: return the response text, fail before the resized
\* copy is saved (the image cannot be opened or saved), or fail in the request
GenerateOutcomes ==
  { [ ok |-> TRUE, saved |-> TRUE, text |-> d ] : d \in Descriptions }
    \cup { [ ok |-> FALSE, saved |-> FALSE, text |-> "ImageError" ],
           [ ok |-> FALSE, saved |-> TRUE, text |-> "InferenceError" ] }

\* the exception logged inside the loop, which then goes on
RaiseSwallowed(e) ==
  [ pc |-> "run", status |-> "running", error |-> e, exitCode |-> 0 ]

\* an exception leaves process_input_path; main logs it and calls sys.exit(1)
Raise(e) ==
  [ pc |-> "idle", status |-> "failed", error |-> e, exitCode |-> 1 ]

\* main: pdf_outputs, image_outputs
PdfOutputs(files) ==
  SelectSeq(files, LAMBDA f : Contains(f, <<"_all_descriptions", ".json">>))

ImageOutputs(files) ==
  SelectSeq(files, LAMBDA f : /\ Contains(f, <<"_description", "_">>)
                              /\ ~InSeq(f, PdfOutputs(files)))

Ev(r, op, src, path, page) ==
  [ run |-> r, op |-> op, src |-> src, path |-> path, page |-> page ]

InputChoices == DOMAIN inFs \cup {InRoot, Missing}

\* datetime.datetime.now(): the wall clock never runs backwards, so a reading
\* is the previous reading or a later second
Now == clock..MaxClock

\* the scratch directory outliving the with block
TemporaryDirectoryKept == [ temp |-> temp, tempLive |-> TRUE ]

\* leaving `with tempfile.TemporaryDirectory()`, by return or by exception:
\* the directory is removed with everything in it
TemporaryDirectoryExit == [ temp |-> {}, tempLive |-> FALSE ]

\* open(output_file, "w") and json.dump: the record is written, or the open
\* raises OSError and nothing is written
WriteOutcomes == BOOLEAN

\* ------------------------------------------------------------- actions
\* main up to the dispatch of process_input_path
Invoke(p) ==
  /\ pc = "idle"
  /\ run < MaxRuns
  /\ run' = run + 1
  /\ inputPath' = p
  /\ outDirs' = outDirs \cup {OutDir}
  /\ output_files' = <<>>
  /\ report' = NoReport
  /\ cur' = NoCur
  /\ events' = Append(events, Ev(run + 1, "invoke", p, OutDir, 0))
  /\ IF IsFile(p) THEN
       /\ pdf_files' = IF SingleDispatch(p) = "pdf" THEN <<p>> ELSE <<>>
       /\ image_files' = IF SingleDispatch(p) = "image" THEN <<p>> ELSE <<>>
       /\ pc' = "run" /\ status' = "running" /\ error' = "" /\ exitCode' = 0
     ELSE IF IsDir(p) THEN
       /\ pdf_files' \in Orders(Glob(p, ".pdf"))
       /\ image_files' \in ImageOrders(p, 1)
       /\ pc' = "run" /\ status' = "running" /\ error' = "" /\ exitCode' = 0
     ELSE
       LET r == Raise("FileNotFoundError") IN
       /\ pdf_files' = <<>> /\ image_files' = <<>>
       /\ pc' = r.pc /\ status' = r.status /\ error' = r.error
       /\ exitCode' = r.exitCode
  /\ UNCHANGED << inFs, posix, outFs, temp, tempLive, clock >>

\* process_pdf up to the page loop
PdfBegin ==
  /\ pc = "run"
  /\ pdf_files # <<>>
  /\ \E now \in Now :
     LET pdf_path == Head(pdf_files)
         timestamp == Strftime(now)
         pdf_output_dir == PdfOutputDir(pdf_path, timestamp)
         images == inFs[pdf_path]
     IN
     /\ clock' = now
     /\ outDirs' = outDirs \cup {pdf_output_dir}
     /\ IF images = Corrupt THEN
          LET r == Raise("RasterizationError") IN
          /\ events' = events \o << Ev(run, "mkdir", pdf_path, pdf_output_dir, 0),
                                    Ev(run, "fail", pdf_path, <<>>, 0) >>
          /\ temp' = TemporaryDirectoryExit.temp
          /\ tempLive' = TemporaryDirectoryExit.tempLive
          /\ cur' = NoCur
          /\ pc' = r.pc /\ status' = r.status /\ error' = r.error
          /\ exitCode' = r.exitCode
        ELSE
          /\ events' = Append(events, Ev(run, "mkdir", pdf_path, pdf_output_dir, 0))
          /\ temp' = { TempPage(k) : k \in 1..images } /\ tempLive' = TRUE
          /\ cur' = [ pdf_path |-> pdf_path, timestamp |-> timestamp,
                      pdf_output_dir |-> pdf_output_dir, images |-> images,
                      i |-> 0, descriptions |-> <<>>, output_files |-> <<>> ]
          /\ pc' = "pages"
          /\ UNCHANGED << status, error, exitCode >>
  /\ UNCHANGED << inFs, posix, outFs, run, inputPath, pdf_files,
                  image_files, output_files, report >>

\* the page loop with a failed page skipped instead of raised
PdfPageSkipsFailure ==
  /\ pc = "pages"
  /\ cur.i < cur.images
  /\ \E g \in GenerateOutcomes :
       LET page_num == cur.i + 1
           image_path == TempPage(page_num)
           output_file == PageOutputFile(cur.pdf_output_dir, page_num)
       IN
       /\ temp' = IF g.saved THEN temp \cup {ResizedPath(image_path)} ELSE temp
       /\ IF g.ok THEN
            /\ cur' = [ cur EXCEPT
                          !.i = page_num,
                          !.descriptions = PutDescription(@, page_num, g.text),
                          !.output_files = Append(@, output_file) ]
            /\ outFs' = (output_file :>
                           PageJson(page_num, cur.pdf_path, cur.timestamp, g.text))
                        @@ outFs
            /\ events' = events \o
                 << Ev(run, "infer", cur.pdf_path, image_path, page_num),
                    Ev(run, "write_page", cur.pdf_path, output_file, page_num) >>
          ELSE
            /\ cur' = [ cur EXCEPT !.i = page_num ]
            /\ events' = events \o
                 << Ev(run, "infer", cur.pdf_path, image_path, page_num),
                    Ev(run, "fail", cur.pdf_path, image_path, page_num) >>
            /\ UNCHANGED outFs
  /\ UNCHANGED << inFs, posix, outDirs, tempLive, clock, run, inputPath,
                  pdf_files, image_files, output_files, report, pc, status,
                  error, exitCode >>

\* the page loop with a failed inference call issued a second time
PdfPageRetries ==
  /\ pc = "pages"
  /\ cur.i < cur.images
  /\ \E g \in GenerateOutcomes :
       LET page_num == cur.i + 1
           image_path == TempPage(page_num)
           output_file == PageOutputFile(cur.pdf_output_dir, page_num)
           call == Ev(run, "infer", cur.pdf_path, image_path, page_num)
           text == IF g.ok THEN g.text ELSE "text"
       IN
       /\ temp' = temp \cup {ResizedPath(image_path)}
       /\ cur' = [ cur EXCEPT
                     !.i = page_num,
                     !.descriptions = PutDescription(@, page_num, text),
                     !.output_files = Append(@, output_file) ]
       /\ outFs' = (output_file :>
                      PageJson(page_num, cur.pdf_path, cur.timestamp, text))
                   @@ outFs
       /\ events' = events \o (IF g.ok THEN <<call>> ELSE <<call, call>>) \o
            << Ev(run, "write_page", cur.pdf_path, output_file, page_num) >>
  /\ UNCHANGED << inFs, posix, outDirs, tempLive, clock, run, inputPath,
                  pdf_files, image_files, output_files, report, pc, status,
                  error, exitCode >>

\* one iteration of the page loop of process_pdf
PdfPage ==
  /\ pc = "pages"
  /\ cur.i < cur.images
  /\ \E g \in GenerateOutcomes, w \in WriteOutcomes :
       LET page_num == cur.i + 1
           image_path == TempPage(page_num)
           output_file == PageOutputFile(cur.pdf_output_dir, page_num)
       IN
       IF g.ok /\ w THEN
         /\ temp' = temp \cup {ResizedPath(image_path)}
         /\ cur' = [ cur EXCEPT
                       !.i = page_num,
                       !.descriptions = PutDescription(@, page_num, g.text),
                       !.output_files = Append(@, output_file) ]
         /\ outFs' = (output_file :>
                        PageJson(page_num, cur.pdf_path, cur.timestamp, g.text))
                     @@ outFs
         /\ events' = events \o
              << Ev(run, "infer", cur.pdf_path, image_path, page_num),
                 Ev(run, "write_page", cur.pdf_path, output_file, page_num) >>
         /\ UNCHANGED << tempLive, pc, status, error, exitCode >>
       ELSE
         LET r == Raise(IF g.ok THEN "OSError" ELSE g.text) IN
         /\ temp' = TemporaryDirectoryExit.temp
         /\ tempLive' = TemporaryDirectoryExit.tempLive
         /\ events' = events \o
              << Ev(run, "infer", cur.pdf_path, image_path, page_num),
                 Ev(run, "fail", cur.pdf_path,
                    IF g.ok THEN output_file ELSE image_path, page_num) >>
         /\ pc' = r.pc /\ status' = r.status /\ error' = r.error
         /\ exitCode' = r.exitCode
         /\ UNCHANGED << cur, outFs >>
  /\ UNCHANGED << inFs, posix, outDirs, clock, run, inputPath, pdf_files,
                  image_files, output_files, report >>

\* process_pdf after the page loop, and its return into process_input_path
PdfCombine ==
  /\ pc = "pages"
  /\ cur.i = cur.images
  /\ temp' = TemporaryDirectoryExit.temp
  /\ tempLive' = TemporaryDirectoryExit.tempLive
  /\ \E w \in WriteOutcomes :
       LET combined_output == CombinedOutputFile(cur.pdf_output_dir, cur.pdf_path) IN
       IF w THEN
         /\ outFs' = (combined_output :>
                        CombinedJson(cur.pdf_path, cur.timestamp, cur.images,
                                     cur.descriptions))
                     @@ outFs
         /\ events' = Append(events,
                             Ev(run, "write_combined", cur.pdf_path, combined_output, 0))
         /\ output_files' = output_files \o cur.output_files \o <<combined_output>>
         /\ pdf_files' = Tail(pdf_files)
         /\ cur' = NoCur
         /\ pc' = "run"
         /\ UNCHANGED << status, error, exitCode >>
       ELSE
         LET r == Raise("OSError") IN
         /\ events' = Append(events,
                             Ev(run, "fail", cur.pdf_path, combined_output, 0))
         /\ pc' = r.pc /\ status' = r.status /\ error' = r.error
         /\ exitCode' = r.exitCode
         /\ UNCHANGED << outFs, output_files, pdf_files, cur >>
  /\ UNCHANGED << inFs, posix, outDirs, clock, run, inputPath, image_files,
                  report >>

\* process_image
ImageStep ==
  /\ pc = "run"
  /\ pdf_files = <<>>
  /\ image_files # <<>>
  /\ \E g \in GenerateOutcomes, now \in Now :
       LET image_path == Head(image_files)
           timestamp == Strftime(now)
           output_file == ImageOutputFile(image_path, timestamp)
       IN
       /\ inFs' = IF g.saved THEN (ResizedPath(image_path) :> 0) @@ inFs ELSE inFs
       /\ IF g.ok THEN
            /\ clock' = now
            /\ outFs' = (output_file :> ImageJson(image_path, timestamp, g.text))
                        @@ outFs
            /\ output_files' = Append(output_files, output_file)
            /\ image_files' = Tail(image_files)
            /\ events' = events \o
                 << Ev(run, "infer", image_path, image_path, 0),
                    Ev(run, "write_image", image_path, output_file, 0) >>
            /\ UNCHANGED << pc, status, error, exitCode >>
          ELSE
            LET r == Raise(g.text) IN
            /\ events' = events \o
                 << Ev(run, "infer", image_path, image_path, 0),
                    Ev(run, "fail", image_path, image_path, 0) >>
            /\ pc' = r.pc /\ status' = r.status /\ error' = r.error
            /\ exitCode' = r.exitCode
            /\ UNCHANGED << outFs, output_files, image_files, clock >>
  /\ UNCHANGED << posix, outDirs, temp, tempLive, run, inputPath,
                  pdf_files, cur, report >>

\* process_input_path returns; main prints the summary
Report ==
  /\ pc = "run"
  /\ pdf_files = <<>>
  /\ image_files = <<>>
  /\ report' = [ images |-> Len(ImageOutputs(output_files)),
                 pdfs |-> Len(PdfOutputs(output_files)) ]
  /\ status' = "ok"
  /\ pc' = "idle"
  /\ events' = Append(events, Ev(run, "return", inputPath, OutDir, 0))
  /\ UNCHANGED << inFs, posix, outFs, outDirs, temp, tempLive, clock, run,
                  inputPath, pdf_files, image_files, cur, output_files, error,
                  exitCode >>

Next ==
  \/ \E p \in InputChoices : Invoke(p)
  \/ PdfBegin
  \/ PdfPage
  \/ PdfCombine
  \/ ImageStep
  \/ Report

Spec == Init /\ [][Next]_vars

\* a single invocation of main
NextOnce ==
  \/ \E p \in InputChoices : run = 0 /\ Invoke(p)
  \/ PdfBegin
  \/ PdfPage
  \/ PdfCombine
  \/ ImageStep
  \/ Report

SpecOnce == Init /\ [][NextOnce]_vars

\* ------------------------------------------------------------ vocabulary
EvIdx == 1..Len(events)

WriteOps == {"write_image", "write_page", "write_combined"}

\* operations that call the inference backend or put something in the output
EffectOps == WriteOps \cup {"infer", "mkdir"}

\* Path.parent
Parent(p) == SubSeq(p, 1, LastSlash(p, Len(p)) - 1)

PageRecordsIn(dir) ==
  { f \in DOMAIN outFs : Parent(f) = dir /\ "page" \in DOMAIN outFs[f] }

CombinedRecordsIn(dir) ==
  { f \in DOMAIN outFs : Parent(f) = dir /\ "total_pages" \in DOMAIN outFs[f] }

PageKeys(n) == { StrOfInt(k) : k \in 1..n }

\* process_pdf has just returned normally
PdfJustReturned == Len(events) > 0 /\ Last(events).op = "write_combined"

\* the input path of the current invocation is neither a file nor a directory
InputMissing == run >= 1 /\ inputPath = Missing

\* the files the tree held before any invocation
Originals == Candidates \cap DOMAIN inFs

\* ---------------------------------------------------------------- claims

\* C1: when process_pdf returns normally for a PDF of N pages, the document's
\* output subfolder holds exactly N page records, with page values exactly
\* 1..N, and exactly one combined record, whose total_pages is N and whose
\* pages mapping has exactly the keys "1".."N".
C1_SubfolderHoldsExactlyNPages ==
  PdfJustReturned =>
    LET e == Last(events)
        dir == Parent(e.path)
        n == inFs[e.src]
    IN
    /\ Cardinality(PageRecordsIn(dir)) = n
    /\ { outFs[f].page : f \in PageRecordsIn(dir) } = 1..n
    /\ CombinedRecordsIn(dir) = {e.path}
    /\ outFs[e.path].total_pages = n
    /\ DOMAIN outFs[e.path].pages = PageKeys(n)

\* C2: when process_pdf returns normally, for every page k of the document
\* the combined record's pages["k"] is the description field of the page
\* record the same call wrote for page k.
C2_CombinedMatchesPageRecords ==
  PdfJustReturned =>
    LET e == Last(events)
        dir == Parent(e.path)
        pages == outFs[e.path].pages
    IN
    \A k \in 1..inFs[e.src] :
      /\ StrOfInt(k) \in DOMAIN pages
      /\ \E j \in EvIdx :
           /\ events[j].run = e.run /\ events[j].src = e.src
           /\ events[j].op = "write_page" /\ events[j].page = k
           /\ Parent(events[j].path) = dir
           /\ events[j].path \in DOMAIN outFs
           /\ outFs[events[j].path].page = k
           /\ outFs[events[j].path].description = pages[StrOfInt(k)]

\* a two-page PDF has just been combined and its pages differ
C2_Witness ==
  /\ PdfJustReturned
  /\ inFs[Last(events).src] = 2
  /\ outFs[Last(events).path].pages["1"] # outFs[Last(events).path].pages["2"]

\* C3: if the inference call fails for page k of a PDF, then in that
\* invocation no combined record is ever written for the document, no record
\* is written for pages k..N, the records of pages 1..k-1 are on disk, and
\* the invocation has failed with a nonzero exit status.
C3_PageFailureAbortsDocument ==
  \A i \in EvIdx :
    (events[i].op = "fail" /\ events[i].page >= 1) =>
      LET f == events[i] IN
      /\ \A j \in EvIdx :
           (events[j].run = f.run /\ events[j].src = f.src) =>
             /\ events[j].op # "write_combined"
             /\ ~(events[j].op = "write_page" /\ events[j].page >= f.page)
      /\ \A k \in 1..(f.page - 1) :
           \E j \in 1..(i - 1) :
             /\ events[j].run = f.run /\ events[j].src = f.src
             /\ events[j].op = "write_page" /\ events[j].page = k
             /\ (run = f.run =>
                   /\ events[j].path \in DOMAIN outFs
                   /\ outFs[events[j].path].page = k
                   /\ outFs[events[j].path].filename = Name(f.src))
      /\ (run = f.run => pc = "idle" /\ status = "failed" /\ exitCode # 0)

\* page 2 of a PDF failed after page 1 was written
C3_Witness ==
  \E i \in EvIdx :
    /\ events[i].op = "fail" /\ events[i].page = 2 /\ events[i].run = run
    /\ PageRecordsIn(cur.pdf_output_dir) # {}
    /\ status = "failed"

\* C4: within one invocation no two distinct sources share an output path:
\* the image record paths, the PDF output subfolders and the page and
\* combined record paths of distinct sources are pairwise distinct.
C4_DistinctSourcesDistinctPaths ==
  \A i, j \in EvIdx :
    ( /\ events[i].run = events[j].run
      /\ events[i].src # events[j].src
      /\ events[i].op \in WriteOps \cup {"mkdir"}
      /\ events[j].op \in WriteOps \cup {"mkdir"} )
    => events[i].path # events[j].path

\* a file whose extension, in any case, is none of the supported ones
IsUnsupported(p) ==
  p \in DOMAIN inFs /\ ~InSeq(Lower(Suffix(p)), PdfExts \o ImageExts)

\* the files of the original tree that the directory listing of root selects
Listed(root) ==
  { p \in Originals :
      p \in Glob(root, ".pdf") \/ (\E k \in 1..Len(ImageExts) : p \in Glob(root, ImageExts[k])) }

\* the image, page and combined records on disk
ImageRecords ==
  { f \in DOMAIN outFs :
      "page" \notin DOMAIN outFs[f] /\ "total_pages" \notin DOMAIN outFs[f] }

PageRecords == { f \in DOMAIN outFs : "page" \in DOMAIN outFs[f] }

CombinedRecords == { f \in DOMAIN outFs : "total_pages" \in DOMAIN outFs[f] }

RECURSIVE SumPages(_)
SumPages(S) ==
  IF S = {} THEN 0
  ELSE LET p == CHOOSE q \in S : TRUE IN inFs[p] + SumPages(S \ {p})

\* C5: a successful invocation on a directory holding M image files and P
\* PDF files leaves exactly M image records, P combined records and
\* n1+..+nP page records in the (initially empty) output directory.  The
\* files counted are those the directory listing selects.
C5_DirectoryYieldsOneRecordPerFile ==
  (run = 1 /\ status = "ok" /\ inputPath = InRoot) =>
    LET imgs == { p \in Listed(InRoot) : SingleDispatch(p) = "image" }
        pdfs == { p \in Listed(InRoot) : SingleDispatch(p) = "pdf" }
    IN
    /\ Cardinality(ImageRecords) = Cardinality(imgs)
    /\ Cardinality(CombinedRecords) = Cardinality(pdfs)
    /\ Cardinality(PageRecords) = SumPages(pdfs)

Returned(r, p) ==
  /\ \E i \in EvIdx : events[i].run = r /\ events[i].op = "invoke" /\ events[i].src = p
  /\ \E i \in EvIdx : events[i].run = r /\ events[i].op = "return"

WritesOf(r) == { i \in EvIdx : events[i].run = r /\ events[i].op \in WriteOps }

\* C6: after two consecutive successful invocations on the same input path,
\* every file the first wrote is still there and was not written again by the
\* second: the second run's records are separate files.
C6_SecondRunKeepsFirstRunFiles ==
  \A p \in InputChoices :
    (Returned(1, p) /\ Returned(2, p)) =>
      \A i \in WritesOf(1) :
        /\ events[i].path \in DOMAIN outFs
        /\ \A j \in WritesOf(2) : events[j].path # events[i].path

\* C7: an input path that is neither a file nor a directory makes the
\* invocation fail with FileNotFoundError, with no inference call and no
\* record written.
C7_MissingInputFailsCleanly ==
  InputMissing =>
    /\ pc = "idle" /\ status = "failed" /\ error = "FileNotFoundError"
    /\ exitCode # 0
    /\ output_files = <<>>
    /\ \A i \in EvIdx : events[i].run = run => events[i].op \notin EffectOps \cup {"return"}

\* an invocation on a missing path has ended
C7_Witness == InputMissing /\ pc = "idle" /\ error = "FileNotFoundError"

C8_WitnessSingle ==
  run >= 1 /\ IsUnsupported(inputPath) /\ status = "ok" /\ pc = "idle"

\* C9: in a directory batch the first failing PDF or image aborts the rest:
\* after the failure the invocation issues no inference call and writes
\* nothing more, it has raised, and every record written before the failure
\* is still on disk.
C9_FirstFailureAbortsBatch ==
  \A i \in EvIdx :
    events[i].op = "fail" =>
      /\ \A j \in EvIdx :
           (j > i /\ events[j].run = events[i].run) => events[j].op \notin EffectOps
      /\ (run = events[i].run =>
            /\ pc = "idle" /\ status = "failed" /\ exitCode # 0
            /\ \A j \in WritesOf(run) : events[j].path \in DOMAIN outFs)

\* a directory batch failed after a record was written, with a file left over
C9_Witness ==
  /\ inputPath = InRoot /\ status = "failed"
  /\ \E i \in EvIdx : events[i].op = "fail" /\ events[i].run = run
  /\ WritesOf(run) # {}
  /\ image_files # <<>>

\* C10: on a successful invocation the reported image count is the number of
\* image records written in it and the reported PDF count is the number of
\* combined records written in it.
C10_ReportedCountsMatch ==
  (status = "ok" /\ pc = "idle") =>
    /\ report.images =
         Cardinality({ i \in WritesOf(run) : events[i].op = "write_image" })
    /\ report.pdfs =
         Cardinality({ i \in WritesOf(run) : events[i].op = "write_combined" })

\* the number of positions of a list that hold p
Occurrences(files, p) == Cardinality({ i \in DOMAIN files : files[i] = p })

\* the directory listing of the current invocation has just been taken
JustListed ==
  /\ Len(events) > 0 /\ Last(events).op = "invoke" /\ Last(events).run = run
  /\ pc = "run" /\ ~IsFile(inputPath)

\* C11: directory enumeration accepts the same files as single-file
\* dispatch: every file under the input directory whose extension, compared
\* case-insensitively, is supported is listed exactly once, in the list of
\* the processor single-file dispatch would choose for it, and nothing else
\* is listed.
C11_EnumerationAgreesWithDispatch ==
  JustListed =>
    /\ \A p \in DOMAIN inFs :
         Under(inputPath, p) =>
           /\ Occurrences(pdf_files, p) =
                (IF SingleDispatch(p) = "pdf" THEN 1 ELSE 0)
           /\ Occurrences(image_files, p) =
                (IF SingleDispatch(p) = "image" THEN 1 ELSE 0)
    /\ \A i \in DOMAIN pdf_files : pdf_files[i] \in DOMAIN inFs
    /\ \A i \in DOMAIN image_files : image_files[i] \in DOMAIN inFs

\* process_pdf is not running: it has not been entered, has returned or has
\* raised
OutsideProcessPdf == pc # "pages"

\* C12: every scratch file created for one PDF (the rasterized pages and the
\* resized copies written next to them) is gone when process_pdf returns or
\* raises: whether all pages succeeded, an inference failed, rasterization
\* failed or a write failed, the scratch directory no longer exists, and
\* nothing of it is in the input tree or the output directory.
C12_ScratchGoneOnEveryExit ==
  /\ OutsideProcessPdf => (~tempLive /\ temp = {})
  /\ \A p \in DOMAIN inFs \cup DOMAIN outFs \cup outDirs : ~Under(TempDir, p)

\* the write of the second page record failed, after two pages were
\* rasterized and resized in the scratch directory
C12_Witness ==
  /\ OutsideProcessPdf /\ status = "failed" /\ error = "OSError"
  /\ Last(events).op = "fail" /\ Last(events).page = 2
  /\ \E i \in EvIdx :
       /\ events[i].op = "infer" /\ events[i].run = run
       /\ events[i].path = TempPage(2)
  /\ ~tempLive

\* the resized intermediate files generate has left in the input tree
ResizedFiles == { p \in DOMAIN inFs : \E q \in DOMAIN inFs : p = ResizedPath(q) }

\* the input path invocation r was given
InputOf(r) ==
  events[CHOOSE i \in EvIdx : events[i].run = r /\ events[i].op = "invoke"].src

\* C13: the resized intermediate file generate writes next to the source
\* image (source path plus "_resized.jpg") is used by no other component: in
\* no invocation over the input directory, the same or a later one, is that
\* file taken as an input unit or a record produced for it.
C13_ResizedFileNeverAnInput ==
  \A i \in EvIdx :
    (events[i].op \in EffectOps \cup {"fail"} /\ InputOf(events[i].run) = InRoot)
      => events[i].src \notin ResizedFiles

\* events i and j belong to the processing of the same PDF in the same invocation
SamePdf(i, j) == events[i].run = events[j].run /\ events[i].src = events[j].src

\* C14: within one PDF the pages are processed strictly sequentially in page
\* order 1..N with no gaps: the inference call for page k+1 is issued only
\* after page k's call has returned and page k's record has been written,
\* exactly one inference call is issued per processed page, and the combined
\* record is written only after the record of page N.
C14_PagesStrictlySequential ==
  \A i \in EvIdx :
    LET e == events[i] IN
    /\ (e.op = "infer" /\ e.page >= 1) =>
         /\ e.path = TempPage(e.page)
         /\ e.page <= inFs[e.src]
         /\ i > 1 /\ SamePdf(i - 1, i)
         /\ IF e.page = 1 THEN events[i - 1].op = "mkdir"
            ELSE /\ events[i - 1].op = "write_page"
                 /\ events[i - 1].page = e.page - 1
         /\ \A j \in EvIdx :
              (SamePdf(j, i) /\ events[j].op = "infer" /\ events[j].page = e.page)
                => j = i
    /\ e.op = "write_page" =>
         /\ i > 1 /\ SamePdf(i - 1, i)
         /\ events[i - 1].op = "infer" /\ events[i - 1].page = e.page
    /\ e.op = "write_combined" =>
         /\ \A k \in 1..inFs[e.src] :
              \E j \in 1..(i - 1) :
                SamePdf(j, i) /\ events[j].op = "write_page" /\ events[j].page = k
         /\ i > 1 /\ SamePdf(i - 1, i)
         /\ IF inFs[e.src] = 0 THEN events[i - 1].op = "mkdir"
            ELSE /\ events[i - 1].op = "write_page"
                 /\ events[i - 1].page = inFs[e.src]
         /\ \A j \in EvIdx :
              (j > i /\ SamePdf(j, i)) => events[j].op \notin {"infer", "write_page"}

\* the combined record of a PDF of MaxPages pages has been written, each page
\* inferred and recorded before it
C14_Witness ==
  /\ Len(events) > 0 /\ Last(events).op = "write_combined"
  /\ inFs[Last(events).src] = MaxPages
  /\ Cardinality({ i \in EvIdx : events[i].op = "infer"
                                   /\ events[i].src = Last(events).src }) = MaxPages

====
